---- MODULE Spec2Model ----
(***************************************************************************)
(* A model of notion-helper: the record layer of notion_helper/orm.py      *)
(* (Model.save / update / delete / upsert over a remote collection) and    *)
(* the block walkers (Model.__list_blocks, _block_to_text,                  *)
(* list_page_blocks).                                                       *)
(***************************************************************************)
EXTENDS Integers, Sequences, FiniteSets, TLC

VARIABLES
    unique_keys,   \* Model.unique_keys of the record type (class attribute)
    db,            \* the remote collection: page id -> page, Free or Archived
    obj,           \* the in-memory record: id and declared fields
    last,          \* the last operation: its name, its result, its remote calls
    tree,          \* the block tree under the page being walked
    args,          \* the arguments of the walk
    stack,         \* the frames of the recursive walk, innermost last
    out,           \* what the walk has produced so far
    fetched,       \* the parents whose children the walk has asked the store for
    status,        \* "idle", "running", "done", or the error that ended the walk
    prop,          \* the property class whose dump and load are applied
    native,        \* the native value given to dump
    payload,       \* what dump returned (or the exception it raised)
    loaded,        \* what load returned (or the exception raised)
    cstate,        \* "idle", "new", "dumped", "loaded"
    recent         \* the frame of a list_recent_pages generator and its listing

ormVars == <<unique_keys, db, obj, last>>

walkVars == <<tree, args, stack, out, fetched, status>>

codecVars == <<prop, native, payload, loaded, cstate>>

restVars == <<codecVars, recent>>

vars == <<unique_keys, db, obj, last, tree, args, stack, out, fetched, status,
          prop, native, payload, loaded, cstate, recent>>

----------------------------------------------------------------------------
(* Bounds *)

\* Number of page identifiers the remote store can hand out.
MaxPages == 2

----------------------------------------------------------------------------
(* Values *)

\* Python's None, as a field value.
None == "None"

\* self.id = None: the record has no identifier (page ids are 1..MaxPages).
NoId == 0

Ids == 1..MaxPages

\* `if self.id:` -- None is falsy, a page id (a non-empty string) is truthy.
Truthy(id) == id # NoId

----------------------------------------------------------------------------
(* Python values of the property codec *)

\* A value with its Python type.  A str is its sequence of characters, a date
\* its day number, a datetime its wall-clock hour count t, its microseconds
\* and its UTC offset in hours (aware) or none (naive).
PyValue(ty, val) == [ty |-> ty, val |-> val]

PyNone == PyValue("NoneType", 0)

PyDateTime(t, micro, aware, off) ==
    PyValue("datetime", [t |-> t, micro |-> micro, aware |-> aware, off |-> off])

\* An exception raised instead of a value.
PyError(name) == PyValue("error", name)

IsError(v) == "ty" \in DOMAIN v /\ v.ty = "error"

RECURSIVE PyEq(_, _)
\* a == b in Python: lists compare element by element, aware datetimes by
\* their instant, a naive datetime equals no aware one, a date no datetime.
PyEq(a, b) ==
    /\ a.ty = b.ty
    /\ CASE a.ty = "list" ->
               /\ Len(a.val) = Len(b.val)
               /\ \A i \in 1..Len(a.val) : PyEq(a.val[i], b.val[i])
         [] a.ty = "datetime" ->
               /\ a.val.aware = b.val.aware
               /\ a.val.micro = b.val.micro
               /\ IF a.val.aware
                  THEN a.val.t - a.val.off = b.val.t - b.val.off
                  ELSE a.val.t = b.val.t
         [] OTHER -> a.val = b.val

\* The property codec is not in use.
CodecIdle ==
    /\ prop = "None"
    /\ native = PyNone
    /\ payload = PyNone
    /\ loaded = PyNone
    /\ cstate = "idle"

\* No list_recent_pages generator exists.
RecentIdle ==
    recent = [listing |-> << >>, cutoff_time |-> PyNone, page_size |-> 100,
              received |-> 0, has_more |-> TRUE, pos |-> 0,
              yielded |-> << >>, examined |-> << >>, status |-> "idle"]

RestIdle == CodecIdle /\ RecentIdle

----------------------------------------------------------------------------
(* The record type: its property descriptors *)

\* Declared fields of the record type, in inspect.getmembers (alphabetical) order.
FieldSeq == <<"k1", "k2", "ro">>

Fields == {FieldSeq[i] : i \in 1..Len(FieldSeq)}

\* The descriptor of each field: its class, its format tag and its name override
\* (None when the field is declared without a name).  The fields usable as
\* uniqueness keys are declared with a name, since filter_value reads self.name.
Descr ==
    [k1   |-> [cls |-> "EmailProperty",    format |-> "email",     name |-> "Email"],
     k2   |-> [cls |-> "SelectProperty",   format |-> "select",    name |-> "Tenant"],
     ro   |-> [cls |-> "ReadOnlyProperty", format |-> None,        name |-> None]]

IsReadOnly(key) == Descr[key].cls = "ReadOnlyProperty"

\* name = define.name if define.name else key
RemoteName(key) == IF Descr[key].name # None THEN Descr[key].name ELSE key

\* In-memory values a field can be given.
FieldValues ==
    [k1 |-> {None, "a"}, k2 |-> {None, "x"}, ro |-> {None, "r"}]

\* The values unique_keys is declared with: none, one field, two fields.
UniqueKeyChoices == {<< >>, <<"k1">>, <<"k1", "k2">>}

UniqueKeySet == {unique_keys[i] : i \in 1..Len(unique_keys)}

----------------------------------------------------------------------------
(* Property.dump / dump_value *)

DumpValue(key, value) ==
    CASE Descr[key].cls = "EmailProperty"    -> value
      [] Descr[key].cls = "SelectProperty"   -> [name |-> value]
      [] Descr[key].cls = "ReadOnlyProperty" -> None

\* {self.format: self.dump_value(value)}
Dump(key, value) == [format |-> Descr[key].format, value |-> DumpValue(key, value)]

\* Property.filter_value(value) with operator '='.
FilterValue(key, value) ==
    [property |-> Descr[key].name, format |-> Descr[key].format, equals |-> value]

----------------------------------------------------------------------------
(* Model.__dump_properties *)

\* A faulty variant: the ReadOnlyProperty test is missing.
Dumpable_All(key) == TRUE

\* The descriptors __dump_properties keeps: Property and not ReadOnlyProperty.
Dumpable(key) == ~IsReadOnly(key)

\* A faulty variant: exclude_unique_keys is ignored.
SkipUnique_Never(key, exclude_unique_keys) == FALSE

\* `if exclude_unique_keys and key in self.unique_keys: continue`
SkipUnique(key, exclude_unique_keys) == exclude_unique_keys /\ key \in UniqueKeySet

\* The fields whose value reaches the payload.
DumpKeys(o, exclude_unique_keys) ==
    {key \in Fields : /\ Dumpable(key)
                      /\ ~SkipUnique(key, exclude_unique_keys)
                      /\ o[key] # None}

\* data[name] = define.dump(getattr(self, key))
DumpProperties(o, exclude_unique_keys) ==
    LET keys  == DumpKeys(o, exclude_unique_keys)
        names == {RemoteName(key) : key \in keys}
        keyOf(n) == CHOOSE key \in keys : RemoteName(key) = n
    IN  [n \in names |-> Dump(keyOf(n), o[keyOf(n)])]

----------------------------------------------------------------------------
(* The remote store, as the client's calls see it *)

\* The properties of a page the client can write.
WritableNames == {RemoteName(key) : key \in {k \in Fields : ~IsReadOnly(k)}}

EmptyProps == [n \in WritableNames |-> None]

FreeSlot == [state |-> "free", props |-> EmptyProps]

IsPage(d, id) == id \in DOMAIN d /\ d[id].state = "live"

HasFreeId(d) == \E i \in Ids : d[i].state = "free"

\* The identifier the store gives the next created page: never a used one.
NewId(d) ==
    IF HasFreeId(d)
    THEN CHOOSE i \in Ids : d[i].state = "free" /\ \A j \in Ids : d[j].state = "free" => i <= j
    ELSE NoId

\* What the store keeps of a dumped value.
Stored(dumped) ==
    CASE dumped.format = "email"     -> dumped.value
      [] dumped.format = "select"    -> dumped.value.name

\* client.pages.create(parent, properties, children=[])
RemoteCreate(d, properties) ==
    IF HasFreeId(d)
    THEN [d EXCEPT ![NewId(d)] =
            [state |-> "live",
             props |-> [n \in WritableNames |->
                           IF n \in DOMAIN properties THEN Stored(properties[n]) ELSE None]]]
    ELSE d

\* client.pages.update(page_id, properties): the given properties are replaced.
RemoteUpdate(d, id, properties) ==
    [d EXCEPT ![id].props =
        [n \in WritableNames |->
            IF n \in DOMAIN properties THEN Stored(properties[n]) ELSE d[id].props[n]]]

\* client.blocks.delete(block_id): the page leaves the collection for the trash,
\* where no call of the record layer reads it; its identifier is never reused.
RemoteDelete(d, id) == [d EXCEPT ![id] = [state |-> "archived", props |-> EmptyProps]]

MatchCond(page, cond) ==
    cond.property \in DOMAIN page.props /\ page.props[cond.property] = cond.equals

Matches(page, filter) ==
    IF "and" \in DOMAIN filter
    THEN \A i \in 1..Len(filter.and) : MatchCond(page, filter.and[i])
    ELSE MatchCond(page, filter)

\* Manager.filter(filter).query(): the records of the collection the filter keeps.
Query(d, filter) == {i \in Ids : IsPage(d, i) /\ Matches(d[i], filter)}

----------------------------------------------------------------------------
(* Model.save / update / delete / upsert *)

\* A faulty variant: only the first uniqueness field is filtered on.
UniquenessFilter_FirstKeyOnly(o) == FilterValue(unique_keys[1], o[unique_keys[1]])

\* The filter save() and upsert() build from unique_keys.
UniquenessFilter(o) ==
    IF Len(unique_keys) = 1
    THEN FilterValue(unique_keys[1], o[unique_keys[1]])
    ELSE [and |-> [i \in 1..Len(unique_keys) |-> FilterValue(unique_keys[i], o[unique_keys[i]])]]

\* The outcome of an operation: the record, the collection, the remote calls
\* issued so far and how the operation ended.
Outcome(o, d, calls, result) == [obj |-> o, db |-> d, calls |-> calls, result |-> result]

\* A faulty variant: update() does not test self.id.
UpdateFrom_Unguarded(o, d, calls, f) ==
    LET call == [api |-> "update", page_id |-> o.id,
                 properties |-> DumpProperties(o, TRUE)]
        cs == Append(calls, call)
    IN  IF f = Len(cs) \/ ~IsPage(d, o.id)
        THEN Outcome(o, d, cs, "TransportFailure")
        ELSE Outcome(o, RemoteUpdate(d, o.id, call.properties), cs, "ok")

\* Model.update.  f is the position of the remote call that fails (0: none).
UpdateFrom(o, d, calls, f) ==
    IF Truthy(o.id)
    THEN LET call == [api |-> "update", page_id |-> o.id,
                      properties |-> DumpProperties(o, TRUE)]
             cs == Append(calls, call)
         IN  IF f = Len(cs) \/ ~IsPage(d, o.id)
             THEN Outcome(o, d, cs, "TransportFailure")
             ELSE Outcome(o, RemoteUpdate(d, o.id, call.properties), cs, "ok")
    ELSE Outcome(o, d, calls, "PreconditionFailed")

\* A faulty variant: save() creates without the uniqueness query.
SaveFrom_Unchecked(o, d, calls, f) ==
    IF Truthy(o.id)
    THEN UpdateFrom(o, d, calls, f)
    ELSE LET c  == [api |-> "create", properties |-> DumpProperties(o, FALSE)]
             cs == Append(calls, c)
         IN  IF f = Len(cs)
             THEN Outcome(o, d, cs, "TransportFailure")
             ELSE Outcome([o EXCEPT !.id = NewId(d)],
                          RemoteCreate(d, c.properties), cs, "ok")

\* Model.save
SaveFrom(o, d, calls, f) ==
    IF Truthy(o.id)
    THEN UpdateFrom(o, d, calls, f)
    ELSE LET check == Len(unique_keys) > 0
             q   == [api |-> "query", filter |-> UniquenessFilter(o)]
             cs1 == IF check THEN Append(calls, q) ELSE calls
         IN  IF check /\ f = Len(cs1)
             THEN Outcome(o, d, cs1, "TransportFailure")
             ELSE IF check /\ Cardinality(Query(d, q.filter)) > 0
             THEN Outcome(o, d, cs1, "IntegrityError")
             ELSE LET c   == [api |-> "create", properties |-> DumpProperties(o, FALSE)]
                      cs2 == Append(cs1, c)
                  IN  IF f = Len(cs2)
                      THEN Outcome(o, d, cs2, "TransportFailure")
                      ELSE Outcome([o EXCEPT !.id = NewId(d)],
                                   RemoteCreate(d, c.properties), cs2, "ok")

\* A faulty variant: delete() forgets to clear self.id.
DeleteFrom_KeepsId(o, d, calls, f) ==
    IF Truthy(o.id)
    THEN LET call == [api |-> "delete", block_id |-> o.id]
             cs == Append(calls, call)
         IN  IF f = Len(cs) \/ ~IsPage(d, o.id)
             THEN Outcome(o, d, cs, "TransportFailure")
             ELSE Outcome(o, RemoteDelete(d, o.id), cs, "ok")
    ELSE Outcome(o, d, calls, "PreconditionFailed")

\* Model.delete
DeleteFrom(o, d, calls, f) ==
    IF Truthy(o.id)
    THEN LET call == [api |-> "delete", block_id |-> o.id]
             cs == Append(calls, call)
         IN  IF f = Len(cs) \/ ~IsPage(d, o.id)
             THEN Outcome(o, d, cs, "TransportFailure")
             ELSE Outcome([o EXCEPT !.id = NoId], RemoteDelete(d, o.id), cs, "ok")
    ELSE Outcome(o, d, calls, "PreconditionFailed")

\* A faulty variant: upsert() updates the first match without testing for a second.
UpsertFrom_FirstMatch(o, d, calls, f) ==
    IF Len(unique_keys) = 0
    THEN SaveFrom(o, d, calls, f)
    ELSE LET q    == [api |-> "query", filter |-> UniquenessFilter(o)]
             cs   == Append(calls, q)
             objs == Query(d, q.filter)
         IN  IF f = Len(cs)
             THEN Outcome(o, d, cs, "TransportFailure")
             ELSE IF Cardinality(objs) = 0
             THEN SaveFrom(o, d, cs, f)
             ELSE UpdateFrom([o EXCEPT !.id = CHOOSE i \in objs : \A j \in objs : i <= j],
                             d, cs, f)

\* Model.upsert
UpsertFrom(o, d, calls, f) ==
    IF Len(unique_keys) = 0
    THEN SaveFrom(o, d, calls, f)
    ELSE LET q    == [api |-> "query", filter |-> UniquenessFilter(o)]
             cs   == Append(calls, q)
             objs == Query(d, q.filter)
         IN  IF f = Len(cs)
             THEN Outcome(o, d, cs, "TransportFailure")
             ELSE IF Cardinality(objs) = 0
             THEN SaveFrom(o, d, cs, f)
             ELSE IF Cardinality(objs) = 1
             THEN UpdateFrom([o EXCEPT !.id = CHOOSE i \in objs : TRUE], d, cs, f)
             ELSE Outcome(o, d, cs, "Multiplicity")

----------------------------------------------------------------------------
(* The record-layer state machine *)

\* The position of the remote call of an operation that fails in transport
\* (0: none does).  An operation issues at most three calls (upsert: query,
\* query, create).
FailAt == {0, 1, 2, 3}

\* An operation whose create the store answers needs an unused identifier.
Created(outcome) ==
    outcome.result = "ok" /\ \E i \in 1..Len(outcome.calls) : outcome.calls[i].api = "create"

HasRoom(outcome) == Created(outcome) => HasFreeId(db)

\* The walkers are not running.
WalkIdle ==
    /\ tree = << >>
    /\ args = [exclude_synced_block |-> 1, page_size |-> 100]
    /\ stack = << >>
    /\ out = << >>
    /\ fetched = << >>
    /\ status = "idle"

\* Model.__init__(**kwargs): every field None unless given; id None unless given.
NewObj(id, kw) == [id |-> id, k1 |-> kw.k1, k2 |-> kw.k2, ro |-> kw.ro]

BlankKwargs == [k1 |-> None, k2 |-> None, ro |-> None]

\* The collections the client can find when it starts: empty, one record, or
\* two records that agree on both key fields (the store enforces nothing).
PageOf(k1, k2) == [state |-> "live", props |-> [EmptyProps EXCEPT !["Email"] = k1, !["Tenant"] = k2]]

InitialCollections ==
    {[i \in Ids |-> FreeSlot],
     [i \in Ids |-> IF i = 1 THEN PageOf("a", "x") ELSE FreeSlot],
     [i \in Ids |-> IF i <= 2 THEN PageOf("a", "x") ELSE FreeSlot]}

Apply(op, outcome) ==
    /\ obj' = outcome.obj
    /\ db' = outcome.db
    /\ last' = [op |-> op, result |-> outcome.result, calls |-> outcome.calls]
    /\ UNCHANGED unique_keys
    /\ UNCHANGED walkVars
    /\ UNCHANGED restVars

Init ==
    /\ unique_keys \in UniqueKeyChoices
    /\ db \in InitialCollections
    /\ obj = NewObj(NoId, BlankKwargs)
    /\ last = [op |-> "new", result |-> "ok", calls |-> << >>]
    /\ WalkIdle
    /\ RestIdle

\* obj = Model(): every declared field None, no identifier.
New ==
    /\ TRUE
    /\ Apply("new", Outcome(NewObj(NoId, BlankKwargs), db, << >>, "ok"))

\* obj.<key> = value, or obj.id = value
SetAttr ==
    \/ \E key \in Fields : \E value \in FieldValues[key] :
          Apply("setattr", Outcome([obj EXCEPT ![key] = value], db, << >>, "ok"))
    \/ \E id \in Ids :
          Apply("setattr", Outcome([obj EXCEPT !.id = id], db, << >>, "ok"))

\* The value a page's property loads as (Property.load of what the store returns).
Loaded(d, id, key) == IF IsReadOnly(key) THEN "r" ELSE d[id].props[RemoteName(key)]

\* obj = Model.objects.get(id)
Get ==
    \E id \in Ids :
        /\ IsPage(db, id)
        /\ Apply("get", Outcome([k \in {"id"} \cup Fields |->
                                    IF k = "id" THEN id ELSE Loaded(db, id, k)],
                                db, <<[api |-> "retrieve", page_id |-> id]>>, "ok"))

Save ==
    \E f \in FailAt :
        /\ HasRoom(SaveFrom(obj, db, << >>, f))
        /\ Apply("save", SaveFrom(obj, db, << >>, f))

\* update() and delete() issue one remote call, so only its failure matters.
Update ==
    \E f \in FailAt :
        /\ f <= 1
        /\ Apply("update", UpdateFrom(obj, db, << >>, f))

Delete ==
    \E f \in FailAt :
        /\ f <= 1
        /\ Apply("delete", DeleteFrom(obj, db, << >>, f))

Upsert ==
    \E f \in FailAt :
        /\ HasRoom(UpsertFrom(obj, db, << >>, f))
        /\ Apply("upsert", UpsertFrom(obj, db, << >>, f))

Next == New \/ SetAttr \/ Get \/ Save \/ Update \/ Delete \/ Upsert

Spec == Init /\ [][Next]_vars

----------------------------------------------------------------------------
(* Block trees *)

\* Number of blocks under the page being walked.
MaxBlocks == 4

\* The identifier of the page itself; its blocks are 1..Len(tree).
PageId == 0

\* What a block of the store's answer carries: its type, the number of cells
\* of a table_row, and synced_block.synced_from (None on the original).
Block(type, cells, synced_from) == [type |-> type, cells |-> cells, synced_from |-> synced_from]

\* block['has_children']
HasChildren(b) == \E c \in DOMAIN tree : tree[c].parent = b

ChildSet(p) == {c \in DOMAIN tree : tree[c].parent = p}

\* What blocks.children.list(block_id=p) returns, in the store's order.
Children(p) ==
    [k \in 1..Cardinality(ChildSet(p)) |->
        CHOOSE c \in ChildSet(p) : Cardinality({d \in ChildSet(p) : d < c}) = k - 1]

\* The trees of at most MaxBlocks blocks built from the given kinds of block: a
\* block's parent is the page or an earlier block, and a table_row has no
\* children.
Trees(kinds) ==
    UNION {
        {t \in [1..n -> {[type |-> k.type, cells |-> k.cells, synced_from |-> k.synced_from,
                          parent |-> p] : k \in kinds, p \in 0..(n - 1)}] :
            \A c \in 1..n : /\ t[c].parent < c
                            /\ t[c].parent # PageId => t[t[c].parent].type # "table_row"}
        : n \in 1..MaxBlocks}

\* The record layer is not in use.
OrmIdle ==
    /\ unique_keys = << >>
    /\ db = [i \in Ids |-> FreeSlot]
    /\ obj = NewObj(NoId, BlankKwargs)
    /\ last = [op |-> "new", result |-> "ok", calls |-> << >>]

Top == stack[Len(stack)]

----------------------------------------------------------------------------
(* _block_to_text and Model.__list_blocks / Model.detail *)

\* Pieces of rendered text: a line break, a tab, and the fragments of a block
\* (n is the block, or the number of columns of a separator row).
Atom(t, n) == [t |-> t, n |-> n]

NL == Atom("nl", 0)

TAB == Atom("tab", 0)

\* "| " + " | ".join(["---" for _ in cells_text]) + " |"
SeparatorRow(cells) == Atom("sep", cells)

\* `if table:` -- None is falsy, True is truthy.
InTable(table) == table = "True"

\* A faulty variant: the first table row does not set table = True.
TableAfterRow_Unset(table) == table

\* The table state after a table_row.
TableAfterRow(table) == IF InTable(table) THEN table ELSE "True"

\* _block_to_text(data, table): (output, table, indentation), or the exception
\* raised.  get_url is not a name of the module notion_helper, so the branches
\* that call it raise NameError.
BlockToText(id, data, table) ==
    CASE data.type = "bulleted_list_item" ->
            [output |-> <<Atom("bullet", id)>>, table |-> table,
             indentation |-> <<TAB>>, error |-> None]
      [] data.type = "child_page" ->
            [output |-> << >>, table |-> table, indentation |-> << >>, error |-> "NameError"]
      [] data.type = "paragraph" ->
            [output |-> <<Atom("text", id)>>, table |-> table,
             indentation |-> << >>, error |-> None]
      [] data.type = "table_row" ->
            [output |-> IF InTable(table)
                        THEN <<Atom("row", id)>>
                        ELSE <<Atom("row", id), NL, SeparatorRow(data.cells)>>,
             table |-> TableAfterRow(table), indentation |-> << >>, error |-> None]
      [] OTHER ->
            [output |-> << >>, table |-> table, indentation |-> << >>, error |-> None]

RECURSIVE Repeat(_, _)
\* child_level * indentation
Repeat(n, text) == IF n = 0 THEN << >> ELSE text \o Repeat(n - 1, text)

IsSpace(atom) == atom.t \in {"nl", "tab"}

\* str.strip()
Strip(text) ==
    LET keep == {i \in 1..Len(text) : ~IsSpace(text[i])}
    IN  IF keep = {} THEN << >>
        ELSE SubSeq(text, CHOOSE i \in keep : \A j \in keep : i <= j,
                          CHOOSE i \in keep : \A j \in keep : j <= i)

\* What one block adds to `blocks` in __list_blocks.
Rendered(r, child_level) ==
    IF r.output # << >>
    THEN (IF r.indentation = << >> /\ ~InTable(r.table) THEN <<NL>> ELSE << >>)
         \o <<NL>> \o Repeat(child_level, r.indentation) \o r.output
    ELSE << >>

DetailKinds ==
    {Block("paragraph", 0, None), Block("bulleted_list_item", 0, None),
     Block("table", 0, None), Block("table_row", 1, None), Block("table_row", 2, None),
     Block("child_page", 0, None)}

DetailInit ==
    /\ OrmIdle
    /\ RestIdle
    /\ tree \in Trees(DetailKinds)
    /\ args = [exclude_synced_block |-> 1, page_size |-> 100]
    /\ stack = << >>
    /\ out = << >>
    /\ fetched = << >>
    /\ status = "idle"

\* Model.detail: self.__list_blocks(self.id)
Detail ==
    /\ status = "idle"
    /\ status' = "running"
    /\ stack' = <<[parent_id |-> PageId, pos |-> 1, table |-> None, child_level |-> 0]>>
    /\ fetched' = <<PageId>>
    /\ UNCHANGED <<tree, args, out>>
    /\ UNCHANGED ormVars
    /\ UNCHANGED restVars

\* One turn of the loop of __list_blocks: render the block, then enter its
\* children if it has any.
ListBlocksStep ==
    /\ status = "running"
    /\ stack # << >>
    /\ Top.pos <= Len(Children(Top.parent_id))
    /\ LET id   == Children(Top.parent_id)[Top.pos]
           r    == BlockToText(id, tree[id], Top.table)
           here == [Top EXCEPT !.pos = Top.pos + 1, !.table = r.table]
           rest == SubSeq(stack, 1, Len(stack) - 1)
       IN  IF r.error # None
           THEN /\ status' = r.error
                /\ stack' = << >>
                /\ UNCHANGED <<out, fetched>>
           ELSE /\ status' = status
                /\ out' = out \o Rendered(r, Top.child_level)
                /\ IF HasChildren(id)
                   THEN /\ stack' = rest \o <<here, [parent_id |-> id, pos |-> 1, table |-> None,
                                                     child_level |-> Top.child_level + 1]>>
                        /\ fetched' = Append(fetched, id)
                   ELSE /\ stack' = Append(rest, here)
                        /\ UNCHANGED fetched
    /\ UNCHANGED <<tree, args>>
    /\ UNCHANGED ormVars
    /\ UNCHANGED restVars

\* The loop of __list_blocks ends: `return blocks`, and at the outermost level
\* detail strips the text.
ListBlocksReturn ==
    /\ status = "running"
    /\ stack # << >>
    /\ Top.pos > Len(Children(Top.parent_id))
    /\ stack' = SubSeq(stack, 1, Len(stack) - 1)
    /\ IF Len(stack) = 1
       THEN status' = "done" /\ out' = Strip(out)
       ELSE UNCHANGED <<status, out>>
    /\ UNCHANGED <<tree, args, fetched>>
    /\ UNCHANGED ormVars
    /\ UNCHANGED restVars

DetailNext == Detail \/ ListBlocksStep \/ ListBlocksReturn

SpecDetail == DetailInit /\ [][DetailNext]_vars

----------------------------------------------------------------------------
(* list_page_blocks *)

\* Python truthiness of a bool or an int (True is 1, False is 0).
PyTruthy(x) == x # 0

\* page_size=100, the default of list_page_blocks.
DefaultPageSize == 100

\* The page sizes a caller passes.
PageSizes == {1, DefaultPageSize}

\* `'synced_block' in block and not block['synced_block']['synced_from']`
SyncedTest(data) == data.type = "synced_block" /\ data.synced_from = None

\* The arguments of the recursive call list_page_blocks(client, block['id'],
\* page_size): the third positional parameter is exclude_synced_block, and
\* page_size takes its default.
NestedArgs(frame) ==
    [exclude_synced_block |-> frame.page_size, page_size |-> DefaultPageSize]

BlockKinds ==
    {Block("paragraph", 0, None), Block("child_page", 0, None),
     Block("synced_block", 0, None), Block("synced_block", 0, "source")}

BlocksInit ==
    /\ OrmIdle
    /\ RestIdle
    /\ tree \in Trees(BlockKinds)
    /\ args \in [exclude_synced_block : {0, 1}, page_size : PageSizes]
    /\ stack = << >>
    /\ out = << >>
    /\ fetched = << >>
    /\ status = "idle"

BlocksFrame(parent_id, a) ==
    [parent_id |-> parent_id, pos |-> 1,
     exclude_synced_block |-> a.exclude_synced_block, page_size |-> a.page_size]

\* list_page_blocks(client, page_id, exclude_synced_block, page_size), drained
\* by its caller.
ListPageBlocks ==
    /\ status = "idle"
    /\ status' = "running"
    /\ stack' = <<BlocksFrame(PageId, args)>>
    /\ fetched' = <<PageId>>
    /\ UNCHANGED <<tree, args, out>>
    /\ UNCHANGED ormVars
    /\ UNCHANGED restVars

\* One turn of the loop on a block that is not entered: it is skipped by the
\* synced test (`continue`) or yielded.
PageBlocksStep ==
    /\ status = "running"
    /\ stack # << >>
    /\ Top.pos <= Len(Children(Top.parent_id))
    /\ LET id   == Children(Top.parent_id)[Top.pos]
           data == tree[id]
           here == [Top EXCEPT !.pos = Top.pos + 1]
           rest == SubSeq(stack, 1, Len(stack) - 1)
       IN  /\ ~(/\ HasChildren(id)
                /\ data.type # "child_page"
                /\ ~(PyTruthy(Top.exclude_synced_block) /\ SyncedTest(data)))
           /\ stack' = Append(rest, here)
           /\ IF HasChildren(id) /\ data.type # "child_page"
              THEN UNCHANGED out
              ELSE out' = Append(out, id)
    /\ UNCHANGED <<tree, args, fetched, status>>
    /\ UNCHANGED ormVars
    /\ UNCHANGED restVars

\* One turn of the loop on a block that is entered: the recursive call starts.
PageBlocksEnter ==
    /\ status = "running"
    /\ stack # << >>
    /\ Top.pos <= Len(Children(Top.parent_id))
    /\ LET id   == Children(Top.parent_id)[Top.pos]
           data == tree[id]
       IN  /\ HasChildren(id)
           /\ data.type # "child_page"
           /\ ~(PyTruthy(Top.exclude_synced_block) /\ SyncedTest(data))
           /\ stack' = Append(stack, BlocksFrame(id, NestedArgs(Top)))
           /\ fetched' = Append(fetched, id)
    /\ UNCHANGED <<tree, args, out, status>>
    /\ UNCHANGED ormVars
    /\ UNCHANGED restVars

\* The loop of a call ends: the generator is exhausted, and the caller's loop
\* yields the block whose children it has just yielded.
PageBlocksReturn ==
    /\ status = "running"
    /\ stack # << >>
    /\ Top.pos > Len(Children(Top.parent_id))
    /\ IF Len(stack) = 1
       THEN /\ status' = "done"
            /\ stack' = << >>
            /\ UNCHANGED out
       ELSE LET caller == stack[Len(stack) - 1]
            IN  /\ stack' = Append(SubSeq(stack, 1, Len(stack) - 2),
                                   [caller EXCEPT !.pos = caller.pos + 1])
                /\ out' = Append(out, Top.parent_id)
                /\ UNCHANGED status
    /\ UNCHANGED <<tree, args, fetched>>
    /\ UNCHANGED ormVars
    /\ UNCHANGED restVars

BlocksNext == ListPageBlocks \/ PageBlocksStep \/ PageBlocksEnter \/ PageBlocksReturn

SpecBlocks == BlocksInit /\ [][BlocksNext]_vars

----------------------------------------------------------------------------
(* The property codec: Property.dump, Property.load, _convert_data *)

MaxItems == 2

\* UTC offset, in hours, of local_timezone (TZ unset: Asia/Shanghai).
LocalOffset == 8

PropertyClasses ==
    {"CheckboxProperty", "TitleProperty", "RichTextProperty", "SelectProperty",
     "StatusProperty", "NumberProperty", "UrlProperty", "EmailProperty",
     "PhoneNumberProperty", "DateProperty", "MultiSelectProperty",
     "RelationProperty"}

\* The class attribute `format` of each property class.
Format(cls) ==
    CASE cls = "CheckboxProperty" -> "checkbox"
      [] cls = "TitleProperty" -> "title"
      [] cls = "RichTextProperty" -> "rich_text"
      [] cls = "SelectProperty" -> "select"
      [] cls = "StatusProperty" -> "status"
      [] cls = "NumberProperty" -> "number"
      [] cls = "UrlProperty" -> "url"
      [] cls = "EmailProperty" -> "email"
      [] cls = "PhoneNumberProperty" -> "phone_number"
      [] cls = "DateProperty" -> "date"
      [] cls = "MultiSelectProperty" -> "multi_select"
      [] cls = "RelationProperty" -> "relation"

\* A faulty variant: every value is written in the date-only format.
DateText_DateOnly(date) ==
    [form |-> "date", day |-> IF date.ty = "datetime" THEN date.val.t ELSE date.val]

\* DateProperty.__date_text: the text strftime writes.  A datetime is written
\* with the literal fraction .000 and with %z, which is empty for a naive one.
DateText(date) ==
    IF date.ty = "datetime"
    THEN [form |-> "datetime", t |-> date.val.t, frac |-> 0,
          zone |-> date.val.aware, off |-> date.val.off]
    ELSE [form |-> "date", day |-> date.val]

\* _str_to_datetime: the datetime format needs an offset and gives the instant
\* in local_timezone; otherwise the date format; otherwise ValueError.
StrToDatetime(str) ==
    IF str.form = "datetime" /\ str.zone
    THEN PyDateTime(str.t - str.off + LocalOffset, str.frac, TRUE, LocalOffset)
    ELSE IF str.form = "date"
         THEN PyValue("date", str.day)
         ELSE PyError("ValueError")

\* dump_value of each property class.
PropertyDumpValue(cls, value) ==
    CASE cls \in {"TitleProperty", "RichTextProperty"} ->
             <<[text |-> [content |-> value]]>>
      [] cls \in {"SelectProperty", "StatusProperty"} ->
             [name |-> value]
      [] cls = "MultiSelectProperty" ->
             [i \in 1..Len(value.val) |-> [name |-> value.val[i]]]
      [] cls = "RelationProperty" ->
             [i \in 1..Len(value.val) |-> [id |-> value.val[i]]]
      [] cls = "DateProperty" ->
             IF value.ty = "datetime"
             THEN [start |-> DateText(value)]
             ELSE IF value.ty = "list"
                  THEN IF Len(value.val) = 0
                       THEN PyError("IndexError")
                       ELSE IF Len(value.val) > 1
                            THEN [start |-> DateText(value.val[1]),
                                  end |-> DateText(value.val[2])]
                            ELSE [start |-> DateText(value.val[1])]
                  ELSE PyError("ValueError")
      [] OTHER -> value

\* Property.dump: the dumped value under the class's format key (only the
\* dump_value of DateProperty raises).
PropertyDump(cls, value) ==
    IF cls = "DateProperty" /\ IsError(PropertyDumpValue(cls, value))
    THEN PropertyDumpValue(cls, value)
    ELSE Format(cls) :> PropertyDumpValue(cls, value)

RECURSIVE PlainText(_, _)
\* The loop `output += chunk['plain_text']` from chunk i on.
PlainText(chunks, i) ==
    IF i > Len(chunks)
    THEN PyValue("str", << >>)
    ELSE IF "plain_text" \notin DOMAIN chunks[i]
         THEN PyError("KeyError")
         ELSE IF IsError(PlainText(chunks, i + 1))
              THEN PlainText(chunks, i + 1)
              ELSE PyValue("str", chunks[i].plain_text.val \o PlainText(chunks, i + 1).val)

\* The branch of _convert_data for a date.
ConvertDate(date) ==
    IF IsError(StrToDatetime(date.start))
    THEN StrToDatetime(date.start)
    ELSE IF "end" \notin DOMAIN date
         THEN PyError("KeyError")
         ELSE IF IsError(StrToDatetime(date.end))
              THEN StrToDatetime(date.end)
              ELSE PyValue("list", <<StrToDatetime(date.start), StrToDatetime(date.end)>>)

\* _convert_data, on the keys that dump writes, in the order it tests them.
ConvertData(data) ==
    CASE "checkbox" \in DOMAIN data -> data["checkbox"]
      [] "date" \in DOMAIN data -> ConvertDate(data["date"])
      [] "email" \in DOMAIN data -> data["email"]
      [] "multi_select" \in DOMAIN data ->
             PyValue("list", [i \in 1..Len(data["multi_select"]) |-> data["multi_select"][i].name])
      [] "number" \in DOMAIN data -> data["number"]
      [] "phone_number" \in DOMAIN data -> data["phone_number"]
      [] "relation" \in DOMAIN data ->
             PyValue("list", [i \in 1..Len(data["relation"]) |-> data["relation"][i].id])
      [] "rich_text" \in DOMAIN data -> PlainText(data["rich_text"], 1)
      [] "select" \in DOMAIN data -> data["select"].name
      [] "status" \in DOMAIN data -> data["status"].name
      [] "title" \in DOMAIN data -> PlainText(data["title"], 1)
      [] "url" \in DOMAIN data -> data["url"]
      [] OTHER -> PyNone

\* RelationProperty.load: one remote get per related id; the label of a
\* record is its id (Model.__repr__); a get of a missing record raises.
RelationLoad(data, found) ==
    IF Len(ConvertData(data).val) > 0 /\ ~found
    THEN PyError("APIResponseError")
    ELSE PyValue("dict", [k \in {ConvertData(data).val[i] : i \in 1..Len(ConvertData(data).val)} |-> k])

\* Property.load, overridden by RelationProperty.
PropertyLoad(cls, data, found) ==
    IF cls = "RelationProperty" THEN RelationLoad(data, found) ELSE ConvertData(data)

\* The sequences over S of at most n items.
SeqsUpTo(S, n) == UNION {[1..k -> S] : k \in 0..n}

Strings == {<< >>, <<"a">>, <<"a", "b">>}

StrValues == {PyValue("str", str) : str \in Strings}

NumValues == {PyValue("int", 0), PyValue("int", 7), PyValue("float", 7)}

DateValues == {PyValue("date", 1), PyValue("date", 2)}

\* Naive and aware datetimes, in and out of the local zone, with and without
\* microseconds.
DateTimeValues ==
    {PyDateTime(t, micro, FALSE, 0) : t \in {10, 30}, micro \in {0, 1}}
        \cup {PyDateTime(t, micro, TRUE, off) : t \in {10, 30}, micro \in {0, 1},
                                                off \in {0, LocalOffset}}

\* The native values handed to dump, by property class.
NativeValues(cls) ==
    CASE cls = "CheckboxProperty" -> {PyValue("bool", b) : b \in BOOLEAN}
      [] cls = "NumberProperty" -> NumValues
      [] cls = "DateProperty" ->
             DateValues \cup DateTimeValues
                 \cup {PyValue("list", l) : l \in SeqsUpTo(DateValues \cup DateTimeValues, MaxItems)}
      [] cls = "MultiSelectProperty" ->
             {PyValue("list", l) : l \in SeqsUpTo(StrValues, MaxItems)}
      [] cls = "RelationProperty" ->
             {PyValue("list", l) : l \in SeqsUpTo({PyValue("str", <<"p">>), PyValue("str", <<"q">>)}, MaxItems)}
      [] OTHER -> StrValues

CodecInit ==
    /\ OrmIdle
    /\ WalkIdle
    /\ prop \in PropertyClasses
    /\ native \in NativeValues(prop)
    /\ payload = PyNone
    /\ loaded = PyNone
    /\ cstate = "new"
    /\ RecentIdle

\* encode: payload = property.dump(native)
PropertyDumpStep ==
    /\ cstate = "new"
    /\ payload' = PropertyDump(prop, native)
    /\ cstate' = "dumped"
    /\ UNCHANGED <<prop, native, loaded, recent>>
    /\ UNCHANGED ormVars
    /\ UNCHANGED walkVars

\* decode: loaded = property.load(payload); an exception of dump propagates.
PropertyLoadStep ==
    /\ cstate = "dumped"
    /\ \E found \in BOOLEAN :
           loaded' = IF IsError(payload) THEN payload ELSE PropertyLoad(prop, payload, found)
    /\ cstate' = "loaded"
    /\ UNCHANGED <<prop, native, payload, recent>>
    /\ UNCHANGED ormVars
    /\ UNCHANGED walkVars

CodecNext ==
    \/ PropertyDumpStep
    \/ PropertyLoadStep

SpecCodec == CodecInit /\ [][CodecNext]_vars

----------------------------------------------------------------------------
(* list_recent_pages *)

MaxListing == 3

MaxTime == 3

\* The text of a last_edited_time at UTC hour t, as the store writes it
\* (2024-01-01T10:00:00.000Z).
EditedText(t) == [form |-> "datetime", t |-> t, frac |-> 0, zone |-> TRUE, off |-> 0]

\* What the search returns: pages by last_edited_time, descending.
Listings ==
    {l \in UNION {[1..n -> 1..MaxTime] : n \in 0..MaxListing} :
        \A i \in 1..(Len(l) - 1) : l[i] >= l[i + 1]}

PagesOf(l) == [i \in 1..Len(l) |-> [id |-> i, last_edited_time |-> EditedText(l[i])]]

\* The cutoff_time arguments: none, a naive datetime, or an aware datetime in
\* UTC or in the local zone.
Cutoffs ==
    {PyNone, PyDateTime(1, 0, FALSE, 0)}
        \cup {PyDateTime(t + off, 0, TRUE, off) : t \in 0..MaxTime, off \in {0, LocalOffset}}

\* A faulty variant: the comparison is strict.
PyLe_Strict(a, b) ==
    \/ a.val.t - a.val.off < b.val.t - b.val.off
    \/ a.val.t - a.val.off = b.val.t - b.val.off /\ a.val.micro < b.val.micro

\* a <= b of two aware datetimes: by instant.
PyLe(a, b) ==
    \/ a.val.t - a.val.off < b.val.t - b.val.off
    \/ a.val.t - a.val.off = b.val.t - b.val.off /\ a.val.micro <= b.val.micro

\* An aware and a naive datetime cannot be ordered (TypeError).
Comparable(a, b) == a.val.aware = b.val.aware

Min(a, b) == IF a <= b THEN a ELSE b

\* list_recent_pages(client, cutoff_time, page_size): the generator is made.
RecentInit ==
    /\ OrmIdle
    /\ WalkIdle
    /\ CodecIdle
    /\ \E l \in Listings, c \in Cutoffs, n \in PageSizes :
           recent = [listing |-> PagesOf(l), cutoff_time |-> c, page_size |-> n,
                     received |-> 0, has_more |-> TRUE, pos |-> 0,
                     yielded |-> << >>, examined |-> << >>, status |-> "running"]

\* iterate_paginated_api asks the search for the next batch.
RecentSearch ==
    /\ recent.status = "running"
    /\ recent.pos = recent.received
    /\ recent.has_more
    /\ LET upto == Min(recent.received + recent.page_size, Len(recent.listing))
       IN recent' = [recent EXCEPT !.received = upto,
                                   !.has_more = upto < Len(recent.listing)]
    /\ UNCHANGED <<ormVars, walkVars, codecVars>>

\* The loop body on the next page of the batch: return at a page at or before
\* the cutoff, otherwise yield it.
RecentStep ==
    /\ recent.status = "running"
    /\ recent.pos < recent.received
    /\ LET page == recent.listing[recent.pos + 1]
           edited == StrToDatetime(page.last_edited_time)
           taken == [recent EXCEPT !.pos = recent.pos + 1]
           looked == [taken EXCEPT !.examined = Append(recent.examined, page.id)]
       IN recent' =
              IF recent.cutoff_time = PyNone
              THEN [taken EXCEPT !.yielded = Append(recent.yielded, page.id)]
              ELSE IF ~Comparable(edited, recent.cutoff_time)
                   THEN [looked EXCEPT !.status = "TypeError"]
                   ELSE IF PyLe(edited, recent.cutoff_time)
                        THEN [looked EXCEPT !.status = "done"]
                        ELSE [looked EXCEPT !.yielded = Append(recent.yielded, page.id)]
    /\ UNCHANGED <<ormVars, walkVars, codecVars>>

\* The listing is exhausted: the generator ends.
RecentEnd ==
    /\ recent.status = "running"
    /\ recent.pos = recent.received
    /\ ~recent.has_more
    /\ recent' = [recent EXCEPT !.status = "done"]
    /\ UNCHANGED <<ormVars, walkVars, codecVars>>

RecentNext ==
    \/ RecentSearch
    \/ RecentStep
    \/ RecentEnd

SpecRecent == RecentInit /\ [][RecentNext]_vars

----------------------------------------------------------------------------
(* Properties of the record layer *)

\* The live records that agree with record o on every uniqueness field.
Agreeing(o, d) ==
    {i \in Ids : IsPage(d, i) /\ \A key \in UniqueKeySet : d[i].props[RemoteName(key)] = o[key]}

Apis(calls) == [i \in 1..Len(calls) |-> calls[i].api]

\* The first remote call of the operation was answered (a call that fails in
\* transport ends the operation, so a failed call is the last one).
FirstAnswered(l) == Len(l.calls) >= 1 /\ ~(l.result = "TransportFailure" /\ Len(l.calls) = 1)

\* The filter is the equality on one uniqueness field, or the conjunction of
\* the equalities on all of them, with the record's values.
IsUniquenessFilterOf(filter, o) ==
    IF Len(unique_keys) = 1
    THEN /\ "equals" \in DOMAIN filter
         /\ filter.equals = o[unique_keys[1]]
         /\ filter.property = RemoteName(unique_keys[1])
    ELSE /\ "and" \in DOMAIN filter
         /\ Len(filter.and) = Len(unique_keys)
         /\ \A i \in 1..Len(unique_keys) :
               /\ filter.and[i].equals = o[unique_keys[i]]
               /\ filter.and[i].property = RemoteName(unique_keys[i])

C1_SaveStep ==
    (last'.op = "save" /\ ~Truthy(obj.id) /\ Len(unique_keys) > 0) =>
        LET calls == last'.calls
            M == Agreeing(obj, db)
        IN  /\ Len(calls) >= 1
            /\ calls[1].api = "query"
            /\ IsUniquenessFilterOf(calls[1].filter, obj)
            /\ Query(db, calls[1].filter) = M
            /\ (FirstAnswered(last') /\ M # {}) =>
                  /\ last'.result = "IntegrityError"
                  /\ Apis(calls) = <<"query">>
                  /\ obj' = obj
                  /\ db' = db
            /\ (FirstAnswered(last') /\ M = {}) =>
                  /\ Apis(calls) = <<"query", "create">>
                  /\ last'.result \in {"ok", "TransportFailure"}
                  /\ last'.result = "ok" =>
                        /\ obj'.id \in Ids
                        /\ db[obj'.id].state = "free"
                        /\ IsPage(db', obj'.id)
                        /\ \A i \in Ids \ {obj'.id} : db'[i] = db[i]
                  /\ last'.result # "ok" => (obj' = obj /\ db' = db)

\* C1: save() on a record without an identifier whose type declares uniqueness
\* fields first queries with the uniqueness filter (one equality, or the
\* conjunction over all uniqueness fields); if a record matches it fails with
\* the integrity error, issues no create and leaves the identifier absent; if
\* none matches it issues exactly one create and the record takes the
\* identifier the store returns.
C1_SaveChecksUniqueness == [][C1_SaveStep]_vars

\* A save() refused by a match on a two-field uniqueness key.
C1_Witness ==
    /\ last.op = "save"
    /\ last.result = "IntegrityError"
    /\ Len(unique_keys) = 2
    /\ obj.id = NoId
    /\ obj.k1 # None

C2_UpsertStep ==
    (last'.op = "upsert" /\ Len(unique_keys) > 0 /\ FirstAnswered(last')) =>
        LET calls == last'.calls
            M == Agreeing(obj, db)
        IN  /\ calls[1].api = "query"
            /\ Query(db, calls[1].filter) = M
            /\ Cardinality(M) = 0 =>
                  \E f \in FailAt :
                      LET s == SaveFrom(obj, db, << >>, f)
                      IN  /\ obj' = s.obj
                          /\ db' = s.db
                          /\ last'.result = s.result
                          /\ Tail(calls) = s.calls
            /\ Cardinality(M) = 1 =>
                  /\ obj'.id \in M
                  /\ Apis(calls) = <<"query", "update">>
                  /\ calls[2].page_id \in M
                  /\ \A i \in Ids \ M : db'[i] = db[i]
            /\ Cardinality(M) >= 2 =>
                  /\ last'.result = "Multiplicity"
                  /\ Apis(calls) = <<"query">>
                  /\ db' = db
                  /\ obj' = obj

\* C2: upsert() on a type with uniqueness fields goes by the number of records
\* matching the uniqueness filter: none, it behaves as save() does; exactly
\* one, it adopts that record's identifier and issues an update of that
\* record, never a create; two or more, it fails with the multiplicity error,
\* mutates nothing remotely and leaves the in-memory identifier as it was.
C2_UpsertByMatchCount == [][C2_UpsertStep]_vars

\* An upsert() that found two matching records.
C2_Witness ==
    /\ last.op = "upsert"
    /\ last.result = "Multiplicity"
    /\ Cardinality(Agreeing(obj, db)) >= 2

\* C3: every update payload sent to the store (by update(), by save() on a
\* record with an identifier, by upsert() after a single match) holds no
\* uniqueness field, whatever its in-memory value, and holds every other
\* non-null field that is not read-only.
C3_UpdatePayload ==
    \A i \in 1..Len(last.calls) :
        last.calls[i].api = "update" =>
            LET p == last.calls[i].properties
            IN  /\ \A key \in UniqueKeySet : RemoteName(key) \notin DOMAIN p
                /\ \A key \in Fields \ UniqueKeySet :
                      (obj[key] # None /\ ~IsReadOnly(key)) =>
                          /\ RemoteName(key) \in DOMAIN p
                          /\ p[RemoteName(key)] = Dump(key, obj[key])

\* An upsert() that updated its single match while the record held a value in
\* its uniqueness field and in another writable field.
C3_Witness ==
    /\ last.op = "upsert"
    /\ last.result = "ok"
    /\ Len(last.calls) = 2
    /\ last.calls[2].api = "update"
    /\ unique_keys = <<"k1">>
    /\ obj.k1 # None
    /\ obj.k2 # None

C4_NoIdStep ==
    (last'.op \in {"update", "delete"} /\ ~Truthy(obj.id)) =>
        /\ last'.result = "PreconditionFailed"
        /\ last'.calls = << >>
        /\ obj' = obj
        /\ db' = db

\* C4: update() and delete() on a record without an identifier fail with the
\* precondition error, issue no remote call and change neither the record nor
\* the remote collection.
C4_NoIdentifierRefused == [][C4_NoIdStep]_vars

\* A delete() refused on a record that holds field values but no identifier.
C4_Witness ==
    /\ last.op = "delete"
    /\ last.result = "PreconditionFailed"
    /\ obj.id = NoId
    /\ obj.k1 # None

C5_DeleteStep ==
    /\ (last'.op = "delete" /\ Truthy(obj.id)) =>
          /\ last'.calls = <<[api |-> "delete", block_id |-> obj.id]>>
          /\ last'.result \in {"ok", "TransportFailure"}
          /\ last'.result = "ok" => (obj'.id = NoId /\ ~IsPage(db', obj.id))
          /\ last'.result = "TransportFailure" => (obj'.id = obj.id /\ db' = db)
    /\ (last.op = "delete" /\ last.result = "ok") =>
          /\ last'.op \in {"update", "delete"} => last'.result = "PreconditionFailed"
          /\ last'.op = "save" =>
                /\ \A i \in 1..Len(last'.calls) : last'.calls[i].api # "update"
                /\ IF Len(unique_keys) > 0
                   THEN Apis(last'.calls) \in {<<"query">>, <<"query", "create">>}
                   ELSE Apis(last'.calls) = <<"create">>

\* C5: delete() on a record with an identifier issues the remote delete of that
\* identifier and then clears the in-memory identifier; the update() or
\* delete() that follows fails with the precondition error and the save() that
\* follows takes the create path (uniqueness check, then create), never an
\* update; when the remote delete fails the identifier is kept.
C5_DeleteClearsIdentifier == [][C5_DeleteStep]_vars

\* A delete() that removed the record's page and cleared its identifier.
C5_Witness ==
    /\ last.op = "delete"
    /\ last.result = "ok"
    /\ obj.id = NoId
    /\ \E i \in Ids : db[i].state = "archived"

\* The outcome of the operation named op on record o.
OutcomeOf(op, o, d, f) ==
    CASE op = "save"   -> SaveFrom(o, d, << >>, f)
      [] op = "update" -> UpdateFrom(o, d, << >>, f)
      [] op = "upsert" -> UpsertFrom(o, d, << >>, f)

ReadOnlyFields == {key \in Fields : IsReadOnly(key)}

\* Record o with its read-only fields unset.
WithoutReadOnly(o) == [k \in DOMAIN o |-> IF k \in ReadOnlyFields THEN None ELSE o[k]]

C6_ReadOnlyStep ==
    (last'.op \in {"save", "update", "upsert"}) =>
        /\ \A i \in 1..Len(last'.calls) :
              last'.calls[i].api \in {"create", "update"} =>
                  \A key \in ReadOnlyFields :
                      RemoteName(key) \notin DOMAIN last'.calls[i].properties
        /\ \A key \in ReadOnlyFields : DumpValue(key, obj[key]) = None
        /\ \E f \in FailAt :
              LET s == OutcomeOf(last'.op, WithoutReadOnly(obj), db, f)
              IN  /\ last'.result = s.result
                  /\ last'.calls = s.calls
                  /\ db' = s.db
                  /\ obj'.id = s.obj.id

\* C6: a field declared with the read-only property variant is in no create and
\* no update payload, whatever value it holds in memory: its encoding is
\* "omit" (None), and the operation ends as it would with the field unset,
\* never with an error of its own.
C6_ReadOnlyNeverSent == [][C6_ReadOnlyStep]_vars

\* A save() that created a page while the record held a read-only value.
C6_Witness ==
    /\ last.op = "save"
    /\ last.result = "ok"
    /\ obj.ro # None
    /\ \E i \in 1..Len(last.calls) : last.calls[i].api = "create"

----------------------------------------------------------------------------
(* Properties of the block walkers *)

Range(seq) == {seq[i] : i \in 1..Len(seq)}

\* seg occurs in text as a run of consecutive pieces.
Occurs(seg, text) ==
    \E k \in 0..(Len(text) - Len(seg)) : \A i \in 1..Len(seg) : text[k + i] = seg[i]

IsRow(c) == tree[c].type = "table_row"

HasRow(p) == \E c \in ChildSet(p) : IsRow(c)

\* The first table_row among the children of p, and the last row of the run of
\* consecutive rows it starts.
FirstRow(p) ==
    CHOOSE i \in 1..Len(Children(p)) :
        IsRow(Children(p)[i]) /\ \A j \in 1..(i - 1) : ~IsRow(Children(p)[j])

LastRow(p) ==
    CHOOSE j \in FirstRow(p)..Len(Children(p)) :
        /\ \A k \in FirstRow(p)..j : IsRow(Children(p)[k])
        /\ j < Len(Children(p)) => ~IsRow(Children(p)[j + 1])

\* The text of that run: the first row, the separator row with one '---' per
\* column of the first row directly below it, then each later row alone.
RunText(p) ==
    [i \in 1..(3 + 2 * (LastRow(p) - FirstRow(p))) |->
        IF i = 1 THEN Atom("row", Children(p)[FirstRow(p)])
        ELSE IF i = 3 THEN SeparatorRow(tree[Children(p)[FirstRow(p)]].cells)
        ELSE IF i % 2 = 0 THEN NL
        ELSE Atom("row", Children(p)[FirstRow(p) + (i - 3) \div 2])]

\* C7: a run of consecutive table_row siblings under one parent, rendered from
\* the state not-in-table, comes out as the rows in order with one separator
\* row in total (one '---' per column) directly below the first row; the first
\* row puts the walk of that parent in-table and every later row adds only
\* itself.
C7_TableRows ==
    /\ \A i \in 1..Len(stack) :
          InTable(stack[i].table) <=>
              \E k \in 1..(stack[i].pos - 1) : IsRow(Children(stack[i].parent_id)[k])
    /\ status = "done" =>
          /\ \A p \in Range(fetched) : HasRow(p) => Occurs(RunText(p), out)
          /\ Cardinality({i \in 1..Len(out) : out[i].t = "sep"})
                = Cardinality({p \in Range(fetched) : HasRow(p)})

\* A table of three consecutive rows of two cells each, rendered to the end.
C7_Witness ==
    /\ status = "done"
    /\ Len(tree) = 4
    /\ tree[1] = [type |-> "table", cells |-> 0, synced_from |-> None, parent |-> PageId]
    /\ \A c \in 2..4 : tree[c] = [type |-> "table_row", cells |-> 2,
                                   synced_from |-> None, parent |-> 1]
    /\ out = <<Atom("row", 2), NL, SeparatorRow(2), NL, Atom("row", 3), NL, Atom("row", 4)>>

RECURSIVE OutsideNestedPages(_)
\* The blocks the walk over the page reaches without entering a nested page.
OutsideNestedPages(c) ==
    \/ tree[c].parent = PageId
    \/ /\ tree[tree[c].parent].type # "child_page"
       /\ OutsideNestedPages(tree[c].parent)

IsMirror(c) == tree[c].type = "synced_block" /\ tree[c].synced_from # None

IsOrigin(c) == tree[c].type = "synced_block" /\ tree[c].synced_from = None

\* C8: with exclude_synced_block at its default, a synced block of the page
\* that references another block as its source and has children is not
\* yielded and its children are not fetched, while a synced block that is the
\* original is yielded and so are its children.
C8_MirrorSkippedOriginKept ==
    (status = "done" /\ PyTruthy(args.exclude_synced_block)) =>
        \A c \in ChildSet(PageId) :
            HasChildren(c) =>
                /\ IsMirror(c) =>
                      /\ c \notin Range(out)
                      /\ c \notin Range(fetched)
                      /\ \A d \in ChildSet(c) : d \notin Range(out)
                /\ IsOrigin(c) =>
                      /\ c \in Range(out)
                      /\ c \in Range(fetched)
                      /\ \A d \in ChildSet(c) : d \in Range(out)

\* C9: with exclude_synced_block false, every block of the tree reachable
\* without entering a nested page is yielded, synced blocks below the first
\* level and their children included.
C9_NothingSkipped ==
    (status = "done" /\ ~PyTruthy(args.exclude_synced_block)) =>
        \A c \in DOMAIN tree : OutsideNestedPages(c) => c \in Range(out)

\* C10: the renderer behind detail does not enter a child_page block: for the
\* one child_page block of a page, which has children, the walk ends with the
\* '[title](url)' fragment of the block in the text and no fetch of its
\* children.
C10_ChildPageNotEntered ==
    status \in {"done", "NameError"} =>
        \A c \in DOMAIN tree :
            (/\ tree[c].type = "child_page"
             /\ HasChildren(c)
             /\ \A d \in DOMAIN tree : tree[d].type = "child_page" => d = c) =>
                /\ status = "done"
                /\ Atom("link", c) \in Range(out)
                /\ c \notin Range(fetched)

----------------------------------------------------------------------------
(* Uniqueness across the collection *)

\* The pairs of live records of d that agree on every uniqueness field.
Duplicates(d) ==
    {pair \in Ids \X Ids :
        /\ pair[1] < pair[2]
        /\ IsPage(d, pair[1])
        /\ IsPage(d, pair[2])
        /\ \A key \in UniqueKeySet :
               d[pair[1]].props[RemoteName(key)] = d[pair[2]].props[RemoteName(key)]}

LivePages(d) == {i \in Ids : IsPage(d, i)}

\* C13: for a record type that declares uniqueness fields, a collection in
\* which no two records agree on all of them is still such a collection after
\* any save(), update(), upsert() or delete() (hence after any sequence of
\* them, issued one at a time).
C13_UniquenessPreserved ==
    [][(Len(unique_keys) > 0 /\ Duplicates(db) = {}) => Duplicates(db') = {}]_vars

\* save() or upsert() has created a second record next to a live one, in a
\* collection that has no duplicates.
C13_Witness ==
    /\ Len(unique_keys) > 0
    /\ last.op \in {"save", "upsert"}
    /\ last.result = "ok"
    /\ Len(last.calls) > 0
    /\ last.calls[Len(last.calls)].api = "create"
    /\ Cardinality(LivePages(db)) > 1
    /\ Duplicates(db) = {}

----------------------------------------------------------------------------
(* Properties of the property codec *)

\* The date values that survive the text form: a date-only value, or an aware
\* datetime of whole seconds.
SurvivesText(v) ==
    \/ v.ty = "date"
    \/ v.ty = "datetime" /\ v.val.aware /\ v.val.micro = 0

\* The inputs on which load(dump(x)) gives x back.
RoundTrips(cls, x) ==
    \/ cls \in {"CheckboxProperty", "NumberProperty", "SelectProperty", "StatusProperty",
                "UrlProperty", "EmailProperty", "PhoneNumberProperty",
                "MultiSelectProperty"}
    \/ /\ cls = "DateProperty"
       /\ x.ty = "list"
       /\ Len(x.val) = 2
       /\ \A i \in 1..2 : SurvivesText(x.val[i])

\* C11 (as stated): for every writable property kind, decoding the payload
\* produced by encoding a native value returns that same value.
C11_RoundTrip ==
    cstate = "loaded" => PyEq(loaded, native)

\* C11 (amended): load(dump(x)) == x for a boolean, a number, a select or
\* status name, a url, email or phone string, a list of labels, and a date
\* range of two values each of which is a date-only value or an aware datetime
\* of whole seconds.
C11_RoundTripWhereShapesAgree ==
    cstate = "loaded" /\ RoundTrips(prop, native) => PyEq(loaded, native)

\* A date range of two aware datetimes outside the local zone has been
\* dumped and loaded.
C11_Witness ==
    /\ cstate = "loaded"
    /\ prop = "DateProperty"
    /\ RoundTrips(prop, native)
    /\ native.val[1].ty = "datetime"
    /\ native.val[1].val.off # LocalOffset
    /\ native.val[2].ty = "datetime"
    /\ loaded.ty = "list"

----------------------------------------------------------------------------
(* Properties of list_recent_pages *)

\* An aware cutoff was given.
HasCutoff == recent.cutoff_time.ty = "datetime" /\ recent.cutoff_time.val.aware

\* The instant, in UTC hours, of a page's last edit and of the cutoff.
EditedAt(i) == recent.listing[i].last_edited_time.t

CutoffAt == recent.cutoff_time.val.t - recent.cutoff_time.val.off

\* The position of the first page edited at or before the cutoff; one past the
\* listing when there is none, or no cutoff.
FirstOld ==
    IF HasCutoff /\ \E i \in 1..Len(recent.listing) : EditedAt(i) <= CutoffAt
    THEN CHOOSE i \in 1..Len(recent.listing) :
             /\ EditedAt(i) <= CutoffAt
             /\ \A j \in 1..(i - 1) : EditedAt(j) > CutoffAt
    ELSE Len(recent.listing) + 1

====
